---- MODULE Spec2Model ----
(***************************************************************************)
(* Model of azure_sb_tool.py: a command-line tool that parses a Service    *)
(* Bus connection string, resolves a queue name, opens a client session    *)
(* and peeks the active queue and the dead-letter sub-queue one after the  *)
(* other, printing what it finds.                                          *)
(*                                                                         *)
(* Text is modelled as a sequence of tokens.  A token is one character     *)
(* (";", "=", " ", "\t", "x", ...) or an indivisible word ("Endpoint",     *)
(* "orders", ...).  Python's None is the record None, a present value v is *)
(* Some(v).                                                                *)
(*                                                                         *)
(* The environment: the broker holds any messages and any library call may *)
(* raise; a signal (SIGINT) may arrive before any statement, any number of *)
(* times; standard output may refuse a line when it is printed or the      *)
(* buffered text when the interpreter shuts down.  Standard error takes    *)
(* every line written to it.                                               *)
(***************************************************************************)
EXTENDS Integers, Sequences, FiniteSets, TLC

VARIABLES
    args,        \* the command line: cs, queue, max, active_only, dlq_only
    stdout_errors, \* sys.stdout.errors, set by the locale the tool runs in
    broker,      \* the broker's two sub-queues, each a sequence of messages
    pc,          \* the statement of main / peek_from_queue to execute next
    parsed,      \* result of parse_connection_string (namespace_cs, entity)
    queue_name,  \* main's queue_name
    ctor_args,   \* every string handed to ServiceBusClient.from_connection_string
    client_open, \* the client session has been entered and not closed
    receivers,   \* receivers entered and not closed, in opening order
    sub_queue,   \* peek_from_queue's sub_queue argument ("ACTIVE" is None)
    messages,    \* peek_from_queue's messages
    idx,         \* peek_from_queue's loop index i (1-based)
    count,       \* peek_from_queue's count
    returned,    \* what each call of peek_from_queue returned, in call order
    total,       \* main's total
    exc,         \* the exception in flight
    stdout,      \* lines printed to standard output
    stderr,      \* lines printed to standard error
    exit_code,   \* the process exit status, -1 while running
    ops          \* every call made to the client library, in order

vars == <<args, stdout_errors, broker, pc, parsed, queue_name, ctor_args, client_open,
          receivers, sub_queue, messages, idx, count, returned, total, exc,
          stdout, stderr, exit_code, ops>>

None == [some |-> FALSE, val |-> <<>>]
Some(v) == [some |-> TRUE, val |-> v]

Min(a, b) == IF a < b THEN a ELSE b

(***************************************************************************)
(* Text helpers: str.strip, str.split, str.split(sep, 1), "in".            *)
(***************************************************************************)
\* the characters str.strip() removes: those for which str.isspace() holds.
\* The ones TLA+ has no escape for are written as their Python escapes.
Whitespace ==
    { " ", "\t", "\n", "\r", "\f", "\\x0b", "\\x1c", "\\x1d", "\\x1e", "\\x1f",
      "\\x85", "\\xa0", "\\u1680", "\\u2000", "\\u2001", "\\u2002", "\\u2003",
      "\\u2004", "\\u2005", "\\u2006", "\\u2007", "\\u2008", "\\u2009",
      "\\u200a", "\\u2028", "\\u2029", "\\u202f", "\\u205f", "\\u3000" }

RECURSIVE LStrip(_)
LStrip(s) == IF s # <<>> /\ Head(s) \in Whitespace THEN LStrip(Tail(s)) ELSE s

RECURSIVE RStrip(_)
RStrip(s) ==
    IF s # <<>> /\ s[Len(s)] \in Whitespace
    THEN RStrip(SubSeq(s, 1, Len(s) - 1)) ELSE s

Strip(s) == RStrip(LStrip(s))

Contains(s, t) == \E i \in 1..Len(s) : s[i] = t

\* the position of the first t in s from position i on, 0 when there is none
RECURSIVE Find(_, _, _)
Find(s, t, i) ==
    IF i > Len(s) THEN 0 ELSE IF s[i] = t THEN i ELSE Find(s, t, i + 1)

IndexOf(s, t) == Find(s, t, 1)

\* s.split(t): always at least one piece, empty pieces kept
RECURSIVE Split(_, _)
Split(s, t) ==
    LET i == IndexOf(s, t)
    IN IF i = 0 THEN <<s>>
       ELSE <<SubSeq(s, 1, i - 1)>> \o Split(SubSeq(s, i + 1, Len(s)), t)

\* s.split(t, 1) for an s that contains t: <<before, after>>
SplitFirst(s, t) ==
    LET i == IndexOf(s, t)
    IN <<SubSeq(s, 1, i - 1), SubSeq(s, i + 1, Len(s))>>

RECURSIVE NonEmpty(_)
NonEmpty(ps) ==
    IF ps = <<>> THEN <<>>
    ELSE IF Head(ps) = <<>> THEN NonEmpty(Tail(ps))
    ELSE <<Head(ps)>> \o NonEmpty(Tail(ps))

RECURSIVE Join(_, _)
Join(ps, t) ==
    IF ps = <<>> THEN <<>>
    ELSE IF Len(ps) = 1 THEN Head(ps)
    ELSE Head(ps) \o <<t>> \o Join(Tail(ps), t)

(***************************************************************************)
(* parse_connection_string                                                 *)
(***************************************************************************)
\* the loop of lines 25-29: later assignments to a key replace earlier ones
RECURSIVE Parts(_)
Parts(kvs) ==
    IF kvs = <<>> THEN <<>>
    ELSE LET kv == kvs[Len(kvs)]
             before == Parts(SubSeq(kvs, 1, Len(kvs) - 1))
         IN IF ~Contains(kv, "=") THEN before
            ELSE LET k == Strip(SplitFirst(kv, "=")[1])
                     v == Strip(SplitFirst(kv, "=")[2])
                 IN (k :> v) @@ before

required == << <<"Endpoint">>, <<"SharedAccessKeyName">>, <<"SharedAccessKey">> >>

MissingRequired(parts) == {i \in 1..Len(required) : required[i] \notin DOMAIN parts}

\* variant: reports the last missing key instead of the first
LastMissing(parts) ==
    required[CHOOSE i \in MissingRequired(parts) :
                 \A j \in MissingRequired(parts) : j <= i]

FirstMissing(parts) ==
    required[CHOOSE i \in MissingRequired(parts) :
                 \A j \in MissingRequired(parts) : i <= j]

\* variant: every part of the input is kept, EntityPath included
namespace_cs_with_entity(parts) ==
    <<"Endpoint", "=">> \o parts[<<"Endpoint">>]
        \o <<";", "SharedAccessKeyName", "=">> \o parts[<<"SharedAccessKeyName">>]
        \o <<";", "SharedAccessKey", "=">> \o parts[<<"SharedAccessKey">>]
        \o (IF <<"EntityPath">> \in DOMAIN parts
            THEN <<";", "EntityPath", "=">> \o parts[<<"EntityPath">>]
            ELSE <<>>)

namespace_cs(parts) ==
    <<"Endpoint", "=">> \o parts[<<"Endpoint">>]
        \o <<";", "SharedAccessKeyName", "=">> \o parts[<<"SharedAccessKeyName">>]
        \o <<";", "SharedAccessKey", "=">> \o parts[<<"SharedAccessKey">>]

parse_connection_string(cs) ==
    LET parts == Parts(NonEmpty(Split(Strip(cs), ";")))
    IN IF MissingRequired(parts) # {}
       THEN [raised |-> TRUE, missing |-> FirstMissing(parts),
             namespace_cs |-> <<>>, entity |-> None]
       ELSE [raised |-> FALSE, missing |-> <<>>,
             namespace_cs |-> namespace_cs(parts),
             entity |-> IF <<"EntityPath">> \in DOMAIN parts
                        THEN Some(parts[<<"EntityPath">>]) ELSE None]

(***************************************************************************)
(* Message rendering                                                       *)
(***************************************************************************)
\* safe_body_to_str: the text printed under "-- body --".  A body is
\* [read, utf8, json, print, data]: whether iterating its chunks succeeds,
\* whether the bytes decode as UTF-8, whether the text parses as JSON,
\* whether the rendered text can be encoded for standard output.
safe_body_to_str(m) ==
    IF ~m.body.read
    THEN [raised |-> FALSE, text |-> <<"<error reading body: ", "e", ">">>]
    ELSE IF m.body.utf8
         THEN IF m.body.json
              THEN [raised |-> FALSE, text |-> <<"json.dumps:", m.body.data>>]
              ELSE [raised |-> FALSE, text |-> <<m.body.data>>]
         ELSE [raised |-> FALSE, text |-> <<"base64:", m.body.data>>]

\* a printed line; tag and n name the sub-queue and the message index of
\* the block a line belongs to
Line(kind, tag, n, text) ==
    [kind |-> kind, tag |-> tag, n |-> n, seq |-> 0, text |-> text]

\* print_message: the four lines of the block of message m (header,
\* properties, "-- body --", body) and how many of them are printed before
\* the function returns or raises.  It raises with nothing printed when a
\* property cannot be read or converted (lines 103-122), after the header
\* when the properties cannot be dumped or written (line 125), and after
\* the first three lines when the body text cannot be rendered or written
\* (line 127).
print_message(prefix, m, i) ==
    LET body == safe_body_to_str(m)
        printed == IF m.props = "unreadable" THEN 0
                   ELSE IF m.props = "unprintable" THEN 1
                   ELSE IF body.raised \/ ~m.body.print THEN 3
                   ELSE 4
    IN [raised |-> printed < 4,
        printed |-> printed,
        block |-> << Line("message", prefix, i, <<>>),
                     [Line("props", prefix, i, <<>>)
                          EXCEPT !.seq = m.sequence_number],
                     Line("body_marker", prefix, i, <<"-- body --">>),
                     Line("body", prefix, i, body.text) >>]

(***************************************************************************)
(* The client library                                                      *)
(***************************************************************************)
\* variant: receive_messages in place of peek_messages, which takes the
\* messages it hands back off the sub-queue
receive_messages(q, n) ==
    [messages |-> SubSeq(q, 1, Min(n, Len(q))),
     queue |-> SubSeq(q, Min(n, Len(q)) + 1, Len(q))]

\* receiver.peek_messages(max_message_count = n) on a sub-queue holding q:
\* the records handed back and the sub-queue afterwards
peek_messages(q, n) ==
    [messages |-> SubSeq(q, 1, Min(n, Len(q))), queue |-> q]

Op(op, sub) == [op |-> op, sub |-> sub]

\* the sub-queue a receiver built from kwargs (lines 132-134) reads
Target(sub) == IF sub = "DEAD_LETTER" THEN "DLQ" ELSE "ACTIVE"

\* line 139
Tag(sub) == IF sub = "DEAD_LETTER" THEN "DLQ" ELSE "ACTIVE"

\* the exception in flight: its type and where it was raised.  A library
\* call raises at "from_connection_string", "get_queue_receiver" or
\* "peek_messages"; print_message raises at "print_message" because of the
\* message it prints; a print whose line standard output does not take
\* raises at "print" ("print_interrupted" for the line of the except
\* clause); a signal raises KeyboardInterrupt at the statement the program
\* has reached.
NoExc == [type |-> "none", at |-> "none"]
Raised(type, at) == [type |-> type, at |-> at]
Faults == {"Exception", "KeyboardInterrupt"}

\* whether standard output can encode a text.  The command line decodes
\* an undecodable byte to a lone surrogate (U+DC80..U+DCFF), which standard
\* output encodes back to the byte when its error handler is
\* surrogateescape (C and POSIX locales) and rejects when it is strict
Encodable(text, errors) ==
    \/ errors = "surrogateescape"
    \/ \A i \in 1..Len(text) : text[i] # "\\udcff"

(***************************************************************************)
(* main                                                                    *)
(***************************************************************************)
\* lines 150-152: the two flags form a mutually exclusive group
MutuallyExclusive(a) == ~(a.active_only /\ a.dlq_only)

\* variant of Or: the second operand wins when it is truthy
OrSwapped(x, y) == IF y.some /\ y.val # <<>> THEN y ELSE x

\* Python truth of an optional string, and "x or y"
Truthy(o) == o.some /\ o.val # <<>>
Or(x, y) == IF Truthy(x) THEN x ELSE y

\* variant of SelectDlq: the dead-letter peek ignores --active-only
SelectDlqAlways(a) == TRUE

\* line 169 and line 176
SelectActive(a) == ~a.dlq_only
SelectDlq(a) == ~a.active_only

\* the process leaves main: sys.exit(code), main returning (0), an uncaught
\* exception (1) or an uncaught KeyboardInterrupt (the interpreter kills
\* itself with SIGINT, status 130); the interpreter then shuts down
Exit(code) == pc' = "shutdown" /\ exit_code' = code

\* lines 146-153: parse_args() returns, or argparse prints the usage and the
\* error to standard error on its way to sys.exit(2)
ParseArgs ==
    /\ pc = "parse_args"
    /\ \/ /\ MutuallyExclusive(args)
          /\ pc' = "parse_cs"
          /\ UNCHANGED stderr
       \/ /\ ~MutuallyExclusive(args)
          /\ stderr' = Append(stderr, Line("usage", "", 0, <<"not allowed with">>))
          /\ pc' = "args_exit"
    /\ UNCHANGED <<args, stdout_errors, broker, parsed, queue_name, ctor_args,
                   client_open, receivers, sub_queue, messages, idx, count,
                   returned, total, exc, stdout, exit_code, ops>>

\* line 153: argparse's sys.exit(2) after the usage has been printed
ArgsExit ==
    /\ pc = "args_exit"
    /\ Exit(2)
    /\ UNCHANGED <<args, stdout_errors, broker, parsed, queue_name, ctor_args,
                   client_open, receivers, sub_queue, messages, idx, count,
                   returned, total, exc, stdout, stderr, ops>>

\* lines 155-157: parse_connection_string returns or raises into the except
\* clause
ParseCS ==
    /\ pc = "parse_cs"
    /\ parsed' = parse_connection_string(args.cs)
    /\ pc' = IF parsed'.raised THEN "cs_error" ELSE "resolve"
    /\ UNCHANGED <<args, stdout_errors, broker, queue_name, ctor_args,
                   client_open, receivers, sub_queue, messages, idx, count,
                   returned, total, exc, stdout, stderr, exit_code, ops>>

\* line 158
PrintCsError ==
    /\ pc = "cs_error"
    /\ stderr' = Append(stderr,
           Line("error", "", 0,
                <<"Invalid connection string: ",
                  "Connection string missing required part: ">>
                    \o parsed.missing))
    /\ pc' = "cs_exit"
    /\ UNCHANGED <<args, stdout_errors, broker, parsed, queue_name, ctor_args,
                   client_open, receivers, sub_queue, messages, idx, count,
                   returned, total, exc, stdout, exit_code, ops>>

\* line 159
CsExit ==
    /\ pc = "cs_exit"
    /\ Exit(2)
    /\ UNCHANGED <<args, stdout_errors, broker, parsed, queue_name, ctor_args,
                   client_open, receivers, sub_queue, messages, idx, count,
                   returned, total, exc, stdout, stderr, ops>>

\* lines 161-162
ResolveQueue ==
    /\ pc = "resolve"
    /\ queue_name' = Or(args.queue, parsed.entity)
    /\ pc' = IF Truthy(queue_name') THEN "open_client" ELSE "queue_error"
    /\ UNCHANGED <<args, stdout_errors, broker, parsed, ctor_args, client_open,
                   receivers, sub_queue, messages, idx, count, returned,
                   total, exc, stdout, stderr, exit_code, ops>>

\* line 163
PrintQueueError ==
    /\ pc = "queue_error"
    /\ stderr' = Append(stderr,
           Line("error", "", 0, <<"No queue name provided.">>))
    /\ pc' = "queue_exit"
    /\ UNCHANGED <<args, stdout_errors, broker, parsed, queue_name, ctor_args,
                   client_open, receivers, sub_queue, messages, idx, count,
                   returned, total, exc, stdout, exit_code, ops>>

\* line 164
QueueExit ==
    /\ pc = "queue_exit"
    /\ Exit(2)
    /\ UNCHANGED <<args, stdout_errors, broker, parsed, queue_name, ctor_args,
                   client_open, receivers, sub_queue, messages, idx, count,
                   returned, total, exc, stdout, stderr, ops>>

\* lines 166-168: the client is built from namespace_cs and its with-block
\* entered, or building it raises
OpenClient ==
    /\ pc = "open_client"
    /\ ctor_args' = Append(ctor_args, parsed.namespace_cs)
    /\ \/ /\ client_open' = TRUE
          /\ ops' = Append(ops, Op("open_client", ""))
          /\ total' = 0
          /\ pc' = "active"
          /\ UNCHANGED exc
       \/ /\ \E f \in Faults : exc' = Raised(f, "from_connection_string")
          /\ pc' = "handler"
          /\ UNCHANGED <<client_open, ops, total>>
    /\ UNCHANGED <<args, stdout_errors, broker, parsed, queue_name, receivers,
                   sub_queue, messages, idx, count, returned, stdout, stderr,
                   exit_code>>

\* lines 169-171: the header is printed and peek_from_queue(...,
\* sub_queue=None) called, or the print raises: always when standard output
\* cannot encode the queue name, possibly when it stops taking writes
StartActive ==
    /\ pc = "active"
    /\ \/ /\ SelectActive(args)
          /\ Encodable(queue_name.val, stdout_errors)
          /\ stdout' = Append(stdout, Line("header", "ACTIVE", args.max, queue_name.val))
          /\ sub_queue' = "None"
          /\ pc' = "get_receiver"
          /\ UNCHANGED exc
       \/ /\ SelectActive(args)
          /\ exc' = Raised("Exception", "print")
          /\ pc' = "client_exit"
          /\ UNCHANGED <<stdout, sub_queue>>
       \/ /\ ~SelectActive(args)
          /\ pc' = "dlq"
          /\ UNCHANGED <<stdout, sub_queue, exc>>
    /\ UNCHANGED <<args, stdout_errors, broker, parsed, queue_name, ctor_args,
                   client_open, receivers, messages, idx, count, returned,
                   total, stderr, exit_code, ops>>

\* lines 176-178: the header is printed and peek_from_queue(...,
\* sub_queue=DEAD_LETTER) called, or the print raises
StartDlq ==
    /\ pc = "dlq"
    /\ \/ /\ SelectDlq(args)
          /\ Encodable(queue_name.val, stdout_errors)
          /\ stdout' = Append(stdout, Line("header", "DLQ", args.max, queue_name.val))
          /\ sub_queue' = "DEAD_LETTER"
          /\ pc' = "get_receiver"
          /\ UNCHANGED exc
       \/ /\ SelectDlq(args)
          /\ exc' = Raised("Exception", "print")
          /\ pc' = "client_exit"
          /\ UNCHANGED <<stdout, sub_queue>>
       \/ /\ ~SelectDlq(args)
          /\ pc' = "done"
          /\ UNCHANGED <<stdout, sub_queue, exc>>
    /\ UNCHANGED <<args, stdout_errors, broker, parsed, queue_name, ctor_args,
                   client_open, receivers, messages, idx, count, returned,
                   total, stderr, exit_code, ops>>

\* lines 132-136: count = 0, then the receiver's with-block is entered or
\* opening it raises
OpenReceiver ==
    /\ pc = "get_receiver"
    /\ count' = 0
    /\ \/ /\ receivers' = Append(receivers, Target(sub_queue))
          /\ ops' = Append(ops, Op("open_receiver", Target(sub_queue)))
          /\ pc' = "peek"
          /\ UNCHANGED exc
       \/ /\ \E f \in Faults : exc' = Raised(f, "get_queue_receiver")
          /\ pc' = "client_exit"
          /\ UNCHANGED <<receivers, ops>>
    /\ UNCHANGED <<args, stdout_errors, broker, parsed, queue_name, ctor_args,
                   client_open, sub_queue, messages, idx, returned, total,
                   stdout, stderr, exit_code>>

\* line 137
PeekMessages ==
    /\ pc = "peek"
    /\ LET r == peek_messages(broker[Target(sub_queue)], args.max)
       IN \/ /\ messages' = r.messages
             /\ broker' = [broker EXCEPT ![Target(sub_queue)] = r.queue]
             /\ ops' = Append(ops, Op("peek_messages", Target(sub_queue)))
             /\ idx' = 1
             /\ pc' = IF r.messages = <<>> THEN "receiver_exit" ELSE "loop"
             /\ UNCHANGED exc
          \/ /\ \E f \in Faults : exc' = Raised(f, "peek_messages")
             /\ ops' = Append(ops, Op("peek_messages", Target(sub_queue)))
             /\ pc' = "receiver_exit"
             /\ UNCHANGED <<messages, broker, idx>>
    /\ UNCHANGED <<args, stdout_errors, parsed, queue_name, ctor_args,
                   client_open, receivers, sub_queue, count, returned, total,
                   stdout, stderr, exit_code>>

\* lines 138-141: one iteration of the loop.  The block is printed and the
\* message counted; or print_message raises after the lines it got to; or
\* one of its four prints raises because standard output does not take the
\* line; or an interrupt arrives before one of the four prints or, after
\* the fourth, before the message is counted.
PrintMessage ==
    /\ pc = "loop"
    /\ LET r == print_message(Tag(sub_queue), messages[idx], idx)
       IN \/ /\ ~r.raised
             /\ stdout' = stdout \o r.block
             /\ count' = count + 1
             /\ idx' = idx + 1
             /\ pc' = IF idx = Len(messages) THEN "receiver_exit" ELSE "loop"
             /\ UNCHANGED exc
          \/ /\ r.raised
             /\ stdout' = stdout \o SubSeq(r.block, 1, r.printed)
             /\ exc' = Raised("Exception", "print_message")
             /\ pc' = "receiver_exit"
             /\ UNCHANGED <<count, idx>>
          \/ /\ \E k \in 0..(r.printed - 1) :
                    stdout' = stdout \o SubSeq(r.block, 1, k)
             /\ exc' = Raised("Exception", "print")
             /\ pc' = "receiver_exit"
             /\ UNCHANGED <<count, idx>>
          \/ /\ \E k \in 0..r.printed :
                    stdout' = stdout \o SubSeq(r.block, 1, k)
             /\ exc' = Raised("KeyboardInterrupt", "print_message")
             /\ pc' = "receiver_exit"
             /\ UNCHANGED <<count, idx>>
    /\ UNCHANGED <<args, stdout_errors, broker, parsed, queue_name, ctor_args,
                   client_open, receivers, sub_queue, messages, returned,
                   total, stderr, exit_code, ops>>

\* variant of ReceiverExit: the receiver is left open when the peek ends
ReceiverExitDeferred ==
    /\ pc = "receiver_exit"
    /\ pc' = IF exc = NoExc THEN "return" ELSE "client_exit"
    /\ UNCHANGED <<args, stdout_errors, broker, parsed, queue_name, ctor_args,
                   client_open, receivers, ops, sub_queue, messages, idx,
                   count, returned, total, exc, stdout, stderr, exit_code>>

\* line 136: leaving the receiver's with-block, normally or by an
\* exception: the receiver's __exit__ runs and closes it
ReceiverExit ==
    /\ pc = "receiver_exit"
    /\ receivers' = SubSeq(receivers, 1, Len(receivers) - 1)
    /\ ops' = Append(ops, Op("close_receiver", Target(sub_queue)))
    /\ pc' = IF exc = NoExc THEN "return" ELSE "client_exit"
    /\ UNCHANGED <<args, stdout_errors, broker, parsed, queue_name, ctor_args,
                   client_open, sub_queue, messages, idx, count, returned,
                   total, exc, stdout, stderr, exit_code>>

\* line 142, and the assignment to c in line 171 or 178
PeekReturn ==
    /\ pc = "return"
    /\ returned' = Append(returned, [sub |-> Target(sub_queue), c |-> count])
    /\ pc' = "info"
    /\ UNCHANGED <<args, stdout_errors, broker, parsed, queue_name, ctor_args,
                   client_open, receivers, sub_queue, messages, idx, count,
                   total, exc, stdout, stderr, exit_code, ops>>

\* lines 172-173 or 179-180: when the count is 0 the [info] line is printed,
\* or that print raises
PrintInfo ==
    /\ pc = "info"
    /\ \/ /\ count # 0
          /\ pc' = "add"
          /\ UNCHANGED <<stdout, exc>>
       \/ /\ count = 0
          /\ stdout' = Append(stdout, Line("info", Target(sub_queue), 0, <<>>))
          /\ pc' = "add"
          /\ UNCHANGED exc
       \/ /\ count = 0
          /\ exc' = Raised("Exception", "print")
          /\ pc' = "client_exit"
          /\ UNCHANGED stdout
    /\ UNCHANGED <<args, stdout_errors, broker, parsed, queue_name, ctor_args,
                   client_open, receivers, sub_queue, messages, idx, count,
                   returned, total, stderr, exit_code, ops>>

\* variant of AddToTotal: total = c in place of total += c
AddToTotalOverwrite ==
    /\ pc = "add"
    /\ total' = count
    /\ pc' = IF sub_queue = "None" THEN "dlq" ELSE "done"
    /\ UNCHANGED <<args, stdout_errors, broker, parsed, queue_name, ctor_args,
                   client_open, receivers, sub_queue, messages, idx, count,
                   returned, exc, stdout, stderr, exit_code, ops>>

\* line 174 or 181: total += c
AddToTotal ==
    /\ pc = "add"
    /\ total' = total + count
    /\ pc' = IF sub_queue = "None" THEN "dlq" ELSE "done"
    /\ UNCHANGED <<args, stdout_errors, broker, parsed, queue_name, ctor_args,
                   client_open, receivers, sub_queue, messages, idx, count,
                   returned, exc, stdout, stderr, exit_code, ops>>

\* line 183: the total line is printed, or the print raises
PrintDone ==
    /\ pc = "done"
    /\ \/ /\ stdout' = Append(stdout, Line("done", "", total, <<>>))
          /\ UNCHANGED exc
       \/ /\ exc' = Raised("Exception", "print")
          /\ UNCHANGED stdout
    /\ pc' = "client_exit"
    /\ UNCHANGED <<args, stdout_errors, broker, parsed, queue_name, ctor_args,
                   client_open, receivers, sub_queue, messages, idx, count,
                   returned, total, stderr, exit_code, ops>>

\* line 167: leaving the client's with-block, by an exception or normally:
\* the client's __exit__ runs and closes it; nothing follows the
\* with-block, so then main returns
ClientExit ==
    /\ pc = "client_exit"
    /\ client_open' = FALSE
    /\ ops' = Append(ops, Op("close_client", ""))
    /\ \/ /\ exc = NoExc
          /\ Exit(0)
       \/ /\ exc # NoExc
          /\ pc' = "handler"
          /\ UNCHANGED exit_code
    /\ UNCHANGED <<args, stdout_errors, broker, parsed, queue_name, ctor_args,
                   receivers, sub_queue, messages, idx, count, returned,
                   total, exc, stdout, stderr>>

\* lines 184-187: the except clause that matches prints its line.  The
\* print of "Interrupted." goes to standard output and may raise; nothing
\* catches that, so the interpreter prints the traceback and exits with 1.
Handler ==
    /\ pc = "handler"
    /\ \/ /\ exc.type = "KeyboardInterrupt"
          /\ stdout' = Append(stdout, Line("interrupted", "", 0, <<>>))
          /\ pc' = "handler_exit"
          /\ UNCHANGED <<stderr, exc, exit_code>>
       \/ /\ exc.type = "KeyboardInterrupt"
          /\ exc' = Raised("Exception", "print_interrupted")
          /\ stderr' = Append(stderr, Line("traceback", "", 0, <<"Exception">>))
          /\ Exit(1)
          /\ UNCHANGED stdout
       \/ /\ exc.type = "Exception"
          /\ stderr' = Append(stderr, Line("error", "", 0, <<exc.at>>))
          /\ pc' = "handler_exit"
          /\ UNCHANGED <<stdout, exc, exit_code>>
    /\ UNCHANGED <<args, stdout_errors, broker, parsed, queue_name, ctor_args,
                   client_open, receivers, sub_queue, messages, idx, count,
                   returned, total, ops>>

\* line 188 after the [error] line; after "Interrupted." main returns
HandlerExit ==
    /\ pc = "handler_exit"
    /\ Exit(IF exc.type = "Exception" THEN 1 ELSE 0)
    /\ UNCHANGED <<args, stdout_errors, broker, parsed, queue_name, ctor_args,
                   client_open, receivers, sub_queue, messages, idx, count,
                   returned, total, exc, stdout, stderr, ops>>

\* the statements at which nothing catches a KeyboardInterrupt: those before
\* the try of line 166 (argparse's error exit and the except clause of
\* lines 157-159 included) and those of the except clauses of lines 184-188
Unprotected ==
    {"parse_args", "args_exit", "parse_cs", "cs_error", "cs_exit", "resolve",
     "queue_error", "queue_exit", "handler", "handler_exit"}

\* a signal (SIGINT) delivered before the statement the program has
\* reached raises KeyboardInterrupt there, in place of any exception in
\* flight.  At an unprotected statement the interpreter prints the
\* traceback and the process dies of the signal.  At line 167 the
\* interrupt goes to the except clause; inside the client's with-block the
\* block is left first; inside the receiver's with-block that one is left
\* first.  While a with-block is being left (its body finished or an
\* exception unwinding through it) the signal is raised either as __exit__
\* is entered, before any of its statements, so that the close never runs
\* and the resource stays open, or inside __exit__ after the close, so that
\* the block is still left by ReceiverExit or ClientExit.  At
\* "get_receiver" and "loop" the interrupt is the KeyboardInterrupt of
\* OpenReceiver and PrintMessage.
Interrupt ==
    /\ pc \in Unprotected \cup {"open_client", "active", "peek", "receiver_exit",
                                "return", "info", "add", "dlq", "done",
                                "client_exit"}
    /\ \/ /\ pc \in Unprotected
          /\ exc' = Raised("KeyboardInterrupt", pc)
          /\ stderr' = Append(stderr, Line("traceback", "", 0, <<"KeyboardInterrupt">>))
          /\ Exit(130)
       \/ /\ pc \notin Unprotected \cup {"receiver_exit", "client_exit"}
          /\ exc' = Raised("KeyboardInterrupt", pc)
          /\ pc' = CASE pc = "open_client" -> "handler"
                     [] pc = "peek" -> "receiver_exit"
                     [] OTHER -> "client_exit"
          /\ UNCHANGED <<stderr, exit_code>>
       \/ /\ pc \in {"receiver_exit", "client_exit"}
          /\ exc.type # "KeyboardInterrupt"
          /\ exc' = Raised("KeyboardInterrupt", pc)
          /\ pc' = pc
          /\ UNCHANGED <<stderr, exit_code>>
       \/ /\ pc \in {"receiver_exit", "client_exit"}
          /\ exc # Raised("KeyboardInterrupt", pc)
          /\ exc' = Raised("KeyboardInterrupt", pc)
          /\ pc' = IF pc = "receiver_exit" THEN "client_exit" ELSE "handler"
          /\ UNCHANGED <<stderr, exit_code>>
    /\ UNCHANGED <<args, stdout_errors, broker, parsed, queue_name, ctor_args,
                   client_open, receivers, sub_queue, messages, idx, count,
                   returned, total, stdout, ops>>

\* interpreter shutdown flushes standard output.  When text is still
\* buffered and the device does not take it (a full disk, a closed pipe)
\* the interpreter reports "Exception ignored ..." on standard error and
\* the status becomes 120, unless the process dies of SIGINT.
Shutdown ==
    /\ pc = "shutdown"
    /\ \/ UNCHANGED <<stderr, exit_code>>
       \/ /\ stdout # <<>>
          /\ stderr' = Append(stderr, Line("ignored", "", 0, <<"Exception ignored">>))
          /\ exit_code' = IF exit_code = 130 THEN 130 ELSE 120
    /\ pc' = "exit"
    /\ UNCHANGED <<args, stdout_errors, broker, parsed, queue_name, ctor_args,
                   client_open, receivers, sub_queue, messages, idx, count,
                   returned, total, exc, stdout, ops>>

Next ==
    \/ ParseArgs
    \/ ArgsExit
    \/ ParseCS
    \/ PrintCsError
    \/ CsExit
    \/ ResolveQueue
    \/ PrintQueueError
    \/ QueueExit
    \/ OpenClient
    \/ StartActive
    \/ StartDlq
    \/ OpenReceiver
    \/ PeekMessages
    \/ PrintMessage
    \/ ReceiverExit
    \/ PeekReturn
    \/ PrintInfo
    \/ AddToTotal
    \/ PrintDone
    \/ ClientExit
    \/ Handler
    \/ HandlerExit
    \/ Interrupt
    \/ Shutdown

(***************************************************************************)
(* Inputs: command lines and broker contents                               *)
(***************************************************************************)
MaxMsgs == 2
MaxSegs == 4
DefaultMax == 50

SeqsUpTo(S, n) == UNION {[1..k -> S] : k \in 0..n}

JsonBody ==
    [read |-> TRUE, utf8 |-> TRUE, json |-> TRUE, print |-> TRUE, data |-> "j"]
TextBody ==
    [read |-> TRUE, utf8 |-> TRUE, json |-> FALSE, print |-> TRUE, data |-> "t"]
BinaryBody ==
    [read |-> TRUE, utf8 |-> FALSE, json |-> FALSE, print |-> TRUE, data |-> "b"]
BrokenBody ==
    [read |-> FALSE, utf8 |-> FALSE, json |-> FALSE, print |-> TRUE, data |-> "b"]
\* a JSON string holding a character standard output cannot encode
SurrogateBody ==
    [read |-> TRUE, utf8 |-> TRUE, json |-> TRUE, print |-> FALSE, data |-> "u"]
\* a body that cannot be read, the error text holding such a character
BrokenSurrogateBody ==
    [read |-> FALSE, utf8 |-> FALSE, json |-> FALSE, print |-> FALSE, data |-> "b"]

\* messages print_message prints in full: a well-formed one and one whose
\* body cannot be read
Printable ==
    { [body |-> JsonBody,   props |-> "ok"],
      [body |-> BrokenBody, props |-> "ok"] }

\* messages print_message raises for: a property cannot be read or
\* converted, the properties cannot be dumped or written, the body text or
\* the placeholder cannot be written
Failing ==
    { [body |-> TextBody,            props |-> "unreadable"],
      [body |-> TextBody,            props |-> "unprintable"],
      [body |-> SurrogateBody,       props |-> "ok"],
      [body |-> BrokenSurrogateBody, props |-> "ok"] }

\* the broker numbers the messages of a sub-queue in order
Numbered(kinds) ==
    [i \in 1..Len(kinds) |->
        [sequence_number |-> i, body |-> kinds[i].body, props |-> kinds[i].props]]

Queues(pool) == {Numbered(kinds) : kinds \in SeqsUpTo(pool, MaxMsgs)}

\* a sub-queue holding at most one failing message
AtMostOneFailing(q) ==
    Cardinality({i \in 1..Len(q) : [body |-> q[i].body, props |-> q[i].props]
                                       \in Failing}) <= 1

\* the other sub-queue: empty, or a well-formed message followed, when
\* there is room, by one whose body cannot be read
Plain ==
    { <<>>,
      Numbered(SubSeq(<<[body |-> JsonBody, props |-> "ok"],
                        [body |-> BrokenBody, props |-> "ok"]>>,
                      1, Min(2, MaxMsgs))) }

\* broker contents: one sub-queue holds any messages with at most one
\* failing message among them, the other is plain
Brokers ==
    LET Mixed == {q \in Queues(Printable \cup Failing) : AtMostOneFailing(q)}
    IN [ACTIVE : Mixed, DLQ : Plain] \cup [ACTIVE : Plain, DLQ : Mixed]

\* pieces a connection string is assembled from: the required keys (one
\* with "=" inside its value), a queue name, and a piece holding a second
\* Endpoint with blanks, a tab and a newline around key and value, a
\* segment without "=", an empty segment and an EntityPath whose value is
\* a tab
SegPool ==
    { <<"Endpoint", "=", "x">>,
      <<"SharedAccessKeyName", "=", "k">>,
      <<"SharedAccessKey", "=", "s", "=">>,
      <<"EntityPath", "=", "orders">>,
      <<" ", "Endpoint", "\t", "=", " ", "y", "\n", ";",
        "junk", ";", ";", "EntityPath", "=", "\t">> }

ConnectionStrings == {Join(segs, ";") : segs \in SeqsUpTo(SegPool, MaxSegs)}

RunCS ==
    <<"Endpoint", "=", "x", ";", "SharedAccessKeyName", "=", "k", ";",
      "SharedAccessKey", "=", "s", ";", "EntityPath", "=", "orders">>

InitControl ==
    /\ pc = "parse_args"
    /\ parsed = [raised |-> FALSE, missing |-> <<>>, namespace_cs |-> <<>>,
                 entity |-> None]
    /\ queue_name = None
    /\ ctor_args = <<>>
    /\ client_open = FALSE
    /\ receivers = <<>>
    /\ sub_queue = "None"
    /\ messages = <<>>
    /\ idx = 0
    /\ count = 0
    /\ returned = <<>>
    /\ total = 0
    /\ exc = NoExc
    /\ stdout = <<>>
    /\ stderr = <<>>
    /\ exit_code = -1
    /\ ops = <<>>

NoEntityCS ==
    <<"Endpoint", "=", "x", ";", "SharedAccessKeyName", "=", "k", ";",
      "SharedAccessKey", "=", "s">>

NoKeyCS ==
    <<"Endpoint", "=", "x", ";", "SharedAccessKeyName", "=", "k", ";",
      "EntityPath", "=", "orders">>

\* a command line that runs, with every flag combination and every broker
\* content; two command lines that are rejected before the broker is
\* contacted
InitRuns ==
    /\ stdout_errors = "strict"
    /\ \/ /\ args \in [cs : {RunCS}, queue : {None}, max : {1, DefaultMax},
                       active_only : BOOLEAN, dlq_only : BOOLEAN]
          /\ broker \in Brokers
       \/ /\ args \in [cs : {NoEntityCS, NoKeyCS}, queue : {None},
                       max : {1, DefaultMax},
                       active_only : BOOLEAN, dlq_only : BOOLEAN]
          /\ broker \in [ACTIVE : Queues(Printable), DLQ : {<<>>}]

\* the EntityPath value is a tab, which parsing trims to the empty string
EmptyEntityCS == NoEntityCS \o <<";", "EntityPath", "=", "\t">>

\* every connection string, without --queue, against an empty broker; four
\* connection strings (a queue name, none, an empty one, a key missing)
\* with --queue empty or a name; three with a --queue name that holds an
\* undecodable byte, under both error handlers of standard output, against
\* one message in the active queue; one command line with both flags;
\* --active-only otherwise
InitArgs ==
    \/ /\ args \in [cs : ConnectionStrings, queue : {None},
                    max : {DefaultMax}, active_only : {TRUE},
                    dlq_only : {FALSE}]
       /\ stdout_errors = "strict"
       /\ broker = [ACTIVE |-> <<>>, DLQ |-> <<>>]
    \/ /\ args \in [cs : {RunCS, NoEntityCS, EmptyEntityCS, NoKeyCS},
                    queue : {Some(<<>>), Some(<<"items">>)},
                    max : {DefaultMax}, active_only : {TRUE},
                    dlq_only : {FALSE}]
       /\ stdout_errors = "strict"
       /\ broker = [ACTIVE |-> <<>>, DLQ |-> <<>>]
    \/ /\ args \in [cs : {RunCS, NoEntityCS, NoKeyCS},
                    queue : {Some(<<"\\udcff">>)},
                    max : {DefaultMax}, active_only : {TRUE},
                    dlq_only : {FALSE}]
       /\ stdout_errors \in {"strict", "surrogateescape"}
       /\ broker = [ACTIVE |-> Numbered(<<[body |-> BinaryBody, props |-> "ok"]>>),
                    DLQ |-> <<>>]
    \/ /\ args \in [cs : {RunCS}, queue : {None}, max : {DefaultMax},
                    active_only : {TRUE}, dlq_only : {TRUE}]
       /\ stdout_errors = "strict"
       /\ broker = [ACTIVE |-> <<>>, DLQ |-> <<>>]

Init == InitControl /\ InitRuns

Spec == Init /\ [][Next]_vars

InitCommandLines == InitControl /\ InitArgs

SpecArgs == InitCommandLines /\ [][Next]_vars

(***************************************************************************)
(* Vocabulary of the properties                                            *)
(***************************************************************************)
Lines(out, kind, tag) ==
    LET Is(l) == l.kind = kind /\ l.tag = tag IN SelectSeq(out, Is)

\* the lines of message blocks printed for a sub-queue, and whether they
\* are exactly c complete blocks numbered 1..c
BlockLines(out, tag) ==
    LET Is(l) == l.tag = tag
                    /\ l.kind \in {"message", "props", "body_marker", "body"}
    IN SelectSeq(out, Is)
CompleteBlocks(out, tag, c) ==
    LET ls == BlockLines(out, tag)
    IN /\ Len(ls) = 4 * c
       /\ \A n \in 1..c :
              /\ ls[4 * n - 3].kind = "message" /\ ls[4 * n - 3].n = n
              /\ ls[4 * n - 2].kind = "props" /\ ls[4 * n - 2].n = n
              /\ ls[4 * n - 1].kind = "body_marker" /\ ls[4 * n - 1].n = n
              /\ ls[4 * n].kind = "body" /\ ls[4 * n].n = n

Calls(op, sub) == {i \in 1..Len(ops) : ops[i] = Op(op, sub)}

DonePrinted == \E i \in 1..Len(stdout) : stdout[i].kind = "done"

\* the command line was accepted by the argument parser
ArgsAccepted ==
    /\ pc \notin {"parse_args", "args_exit"}
    /\ exc.at \notin {"parse_args", "args_exit"}
    /\ ~(args.active_only /\ args.dlq_only)

\* parse_connection_string has been called
CsParsed == ArgsAccepted /\ pc # "parse_cs" /\ exc.at # "parse_cs"

\* the queue name has been resolved, or resolving it has failed
QueueResolved ==
    CsParsed /\ ~parsed.raised /\ pc # "resolve" /\ exc.at # "resolve"

\* an interrupt ended the run, or is about to
Interrupted == exc.type = "KeyboardInterrupt"

\* what a connection string says, read off its text
Segments(cs) == Split(Strip(cs), ";")
KeyOf(seg) == Strip(SubSeq(seg, 1, IndexOf(seg, "=") - 1))
ValueOf(seg) == Strip(SubSeq(seg, IndexOf(seg, "=") + 1, Len(seg)))
Occurrences(segs, key) ==
    {i \in 1..Len(segs) : Contains(segs[i], "=") /\ KeyOf(segs[i]) = <<key>>}
KeysOf(segs) ==
    {KeyOf(segs[i]) : i \in {j \in 1..Len(segs) : Contains(segs[j], "=")}}
HasKey(segs, key) == <<key>> \in KeysOf(segs)
LastValue(segs, key) ==
    LET occ == Occurrences(segs, key)
    IN ValueOf(segs[CHOOSE i \in occ : \A j \in occ : j <= i])
RequiredKeys == <<"Endpoint", "SharedAccessKeyName", "SharedAccessKey">>
AbsentKeys(segs) ==
    LET keys == KeysOf(segs) IN {i \in 1..3 : <<RequiredKeys[i]>> \notin keys}

\* an optional string that is present and not empty
Given(o) == o.some /\ Len(o.val) > 0

\* the run has taken the missing-queue-name path (lines 162-164): nothing
\* has been printed to standard output, no client built and no library
\* call made; unless an interrupt cut the path short the error line is
\* the only line on standard error once line 163 has run, and the process
\* ends with exit code 2
MissingQueueFailure ==
    /\ \/ pc \in {"queue_error", "queue_exit"}
       \/ exc.at \in {"queue_error", "queue_exit"}
       \/ /\ pc \in {"shutdown", "exit"}
          /\ stderr = <<Line("error", "", 0, <<"No queue name provided.">>)>>
          /\ exit_code = 2
    /\ pc = "queue_exit" =>
          stderr = <<Line("error", "", 0, <<"No queue name provided.">>)>>
    /\ stdout = <<>>
    /\ ctor_args = <<>>
    /\ ops = <<>>
    /\ ~client_open

(***************************************************************************)
(* Properties                                                              *)
(***************************************************************************)

\* C1: every acquired resource is released on every exit path.  No receiver
\* is open once control has left peek_from_queue, normally or by an
\* exception (an interrupt included); neither a receiver nor the client
\* session is open when the except clause runs, when anything has been
\* written to standard error, or when the process has ended; and by then
\* every open call made to the library has been followed by its close.
ResourcesReleased ==
    /\ pc \notin {"peek", "loop", "receiver_exit"} => receivers = <<>>
    /\ pc \in {"handler", "handler_exit", "shutdown", "exit"} =>
          /\ ~client_open
          /\ receivers = <<>>
          /\ \A sub \in {"ACTIVE", "DLQ"} :
                 \A i \in Calls("open_receiver", sub) :
                     \E j \in Calls("close_receiver", sub) : i < j
          /\ \A i \in Calls("open_client", "") :
                 \E j \in Calls("close_client", "") : i < j
    /\ stderr # <<>> => ~client_open /\ receivers = <<>>

\* C2: the tool is non-destructive.  No step of any run changes the contents
\* of the active queue or of the dead-letter sub-queue (messages, their
\* order, their delivery state), and the only calls made to the library are
\* open client, open receiver, peek_messages and close.
NonDestructive ==
    [][/\ broker' = broker
       /\ \A i \in 1..Len(ops') :
              ops'[i].op \in {"open_client", "open_receiver", "peek_messages",
                              "close_receiver", "close_client"}]_vars

\* a run that peeked messages from both sub-queues and ended normally
PeekedBothNonEmpty ==
    /\ pc = "exit"
    /\ exit_code = 0
    /\ Len(returned) = 2
    /\ returned[1].c > 0
    /\ returned[2].c > 0

\* C3: peeks are strictly sequential.  At most one receiver is open at any
\* time; every call on the active receiver (open, peek, close) precedes
\* every call on the dead-letter receiver, and every line printed for the
\* active queue precedes every line printed for the dead-letter sub-queue;
\* when both are selected and the dead-letter receiver has been opened, the
\* active peek has returned, its receiver is closed and all the messages it
\* fetched are printed as complete blocks.
StrictlySequential ==
    /\ Len(receivers) <= 1
    /\ \A i \in 1..Len(ops) :
           ops[i].sub = "DLQ" =>
               \A j \in i..Len(ops) : ops[j].sub # "ACTIVE"
    /\ \A i \in 1..Len(stdout) :
           stdout[i].tag = "DLQ" =>
               \A j \in i..Len(stdout) : stdout[j].tag # "ACTIVE"
    /\ Calls("open_receiver", "DLQ") # {} /\ ~args.dlq_only =>
          /\ Calls("close_receiver", "ACTIVE") # {}
          /\ Len(returned) >= 1
          /\ returned[1].sub = "ACTIVE"
          /\ CompleteBlocks(stdout, "ACTIVE", Min(args.max, Len(broker.ACTIVE)))

\* the dead-letter receiver is open after an active peek that printed
\* messages
DlqOpenAfterActive ==
    /\ receivers = <<"DLQ">>
    /\ Len(Lines(stdout, "body", "ACTIVE")) = 2
    /\ Calls("close_receiver", "ACTIVE") # {}

\* C4: the flags decide which sub-queues are peeked.  The two flags are
\* never both in effect once the command line is accepted; with
\* --active-only no call and no output concerns the dead-letter sub-queue,
\* with --dlq-only none concerns the active queue; no sub-queue is opened or
\* peeked twice; and a run that reaches its final total line has peeked
\* exactly the selected sub-queues, once each (both without a flag).
FlagsSelectSubQueues ==
    LET selected == (IF args.dlq_only THEN {} ELSE {"ACTIVE"})
                        \cup (IF args.active_only THEN {} ELSE {"DLQ"})
        mentioned == {ops[i].sub : i \in 1..Len(ops)}
                        \cup {stdout[i].tag : i \in 1..Len(stdout)}
    IN /\ pc \notin {"parse_args", "args_exit", "shutdown", "exit"} =>
              ~(args.active_only /\ args.dlq_only)
       /\ pc = "exit" /\ args.active_only /\ args.dlq_only =>
              /\ ops = <<>>
              /\ stdout = <<>>
              /\ exc = NoExc => exit_code = 2
       /\ args.active_only => "DLQ" \notin mentioned
       /\ args.dlq_only => "ACTIVE" \notin mentioned
       /\ \A sub \in {"ACTIVE", "DLQ"} :
              /\ Cardinality(Calls("open_receiver", sub)) <= 1
              /\ Cardinality(Calls("peek_messages", sub)) <= 1
       /\ DonePrinted =>
              \A sub \in {"ACTIVE", "DLQ"} :
                  /\ sub \in selected => Cardinality(Calls("peek_messages", sub)) = 1
                  /\ sub \notin selected => Calls("peek_messages", sub) = {}

\* an --active-only run ended normally without touching a dead-letter
\* sub-queue that holds messages
ActiveOnlySkipsDlq ==
    /\ pc = "exit"
    /\ DonePrinted
    /\ args.active_only
    /\ broker.DLQ # <<>>
    /\ Calls("peek_messages", "ACTIVE") # {}

FailureExitsOne ==
    /\ pc = "exit" /\ exc.type = "Exception"
           /\ exc.at \in {"from_connection_string", "get_queue_receiver",
                          "peek_messages"} =>
          /\ exit_code = 1
          /\ Len(Lines(stderr, "error", "")) = 1
          /\ ~DonePrinted
          /\ Lines(stdout, "interrupted", "") = <<>>
          /\ exc.at = "from_connection_string" => ops = <<>> /\ stdout = <<>>
          /\ exc.at # "from_connection_string" =>
                /\ count = 0
                /\ BlockLines(stdout, Tag(sub_queue)) = <<>>
                /\ \A i \in 1..Len(returned) : returned[i].sub # Target(sub_queue)
                /\ Lines(stdout, "info", Target(sub_queue)) = <<>>
                /\ sub_queue = "None" =>
                       /\ \A i \in 1..Len(ops) : ops[i].sub # "DLQ"
                       /\ \A i \in 1..Len(stdout) : stdout[i].tag # "DLQ"
                /\ ops[Len(ops)] = Op("close_client", "")
    /\ pc = "exit" /\ exc = NoExc /\ ctor_args # <<>> =>
          /\ exit_code = 0
          /\ DonePrinted

\* C9: in a run that reaches its total line, each call of peek_from_queue
\* returned the number of message blocks printed for its sub-queue, the
\* blocks are complete, numbered 1..count and show the first messages of
\* the sub-queue in broker order; the printed total is the sum of the returned
\* counts; a sub-queue that returned 0 has exactly one [info] line and any
\* other none; unless an interrupt follows it, the total line is the last
\* line printed.
CountsAndTotal ==
    DonePrinted =>
        LET sum == IF Len(returned) = 0 THEN 0
                   ELSE IF Len(returned) = 1 THEN returned[1].c
                   ELSE returned[1].c + returned[2].c
        IN /\ Len(returned) <= 2
           /\ \A k \in 1..Len(returned) :
                  LET sub == returned[k].sub
                  IN /\ CompleteBlocks(stdout, sub, returned[k].c)
                     /\ returned[k].c = Len(Lines(stdout, "message", sub))
                     /\ returned[k].c = Min(args.max, Len(broker[sub]))
                     /\ \A n \in 1..returned[k].c :
                            Lines(stdout, "props", sub)[n].seq
                                = broker[sub][n].sequence_number
                     /\ Len(Lines(stdout, "info", sub))
                            = IF returned[k].c = 0 THEN 1 ELSE 0
           /\ Len(Lines(stdout, "done", "")) = 1
           /\ Lines(stdout, "done", "")[1].n = sum
           /\ exc = NoExc => stdout[Len(stdout)].kind = "done"

\* a run ended normally after an empty active queue and two dead-letter
\* messages
EmptyActiveTwoDlq ==
    /\ pc = "exit"
    /\ DonePrinted
    /\ returned = <<[sub |-> "ACTIVE", c |-> 0], [sub |-> "DLQ", c |-> 2]>>

\* C10: a body that cannot be read never aborts the peek loop.  The body
\* line of a message whose body cannot be read shows the placeholder; no
\* exception leaves print_message for a message whose properties print and
\* whose body cannot be read; and a peek that returned has printed every
\* message of its batch in order as a complete block, unreadable bodies
\* included, and counted them all.
BodyFailureRecovered ==
    /\ \A i \in 1..Len(stdout) :
           stdout[i].kind = "body" /\ ~broker[stdout[i].tag][stdout[i].n].body.read
               => stdout[i].text = <<"<error reading body: ", "e", ">">>
    /\ exc = Raised("Exception", "print_message") /\ messages[idx].props = "ok" =>
           messages[idx].body.read
    /\ pc = "return" =>
           /\ count = Len(messages)
           /\ CompleteBlocks(stdout, Tag(sub_queue), Len(messages))
           /\ \A n \in 1..Len(messages) :
                  Lines(stdout, "props", Tag(sub_queue))[n].seq
                      = messages[n].sequence_number

====
